---------------------------- MODULE Spec2Model ----------------------------
(***************************************************************************)
(* A model of tunnel: a signalling server (src/server), a sender and a     *)
(* receiver (src/client) that negotiate through the server and move a     *)
(* file over a WebRTC data channel in acknowledged chunks.                 *)
(*                                                                         *)
(* Every coroutine is cut at the points where it can be suspended (an     *)
(* awaited send, recv, close or Event.wait that blocks); what runs        *)
(* between two such points is one atomic action, as in a single-threaded  *)
(* asyncio event loop.                                                     *)
(***************************************************************************)
EXTENDS Naturals, Integers, Sequences, FiniteSets, TLC

(***************************************************************************)
(* Bounds of the model.                                                    *)
(***************************************************************************)
\* connections the server sees
NumConns == 2
\* requests the arbitrary clients of ServerSpec send in one run
MaxRequests == 4

Conns == 1..NumConns
\* Python's None, for string-valued fields
None == "None"
\* Python's None, for a slot that holds a websocket
NoWs == 0
\* session names in use
Names == {"ape-bat-cat", "dog-elk-fox"}
\* server.sessions.sessions when the server starts: no session
NoSessions == <<>>

(***************************************************************************)
(* Messages.  A request is what RequestData keeps of a JSON message, a     *)
(* reply is the JSON object the server sends; an absent key reads as None. *)
(***************************************************************************)
\* metadata: null
NoMetadata == [filename |-> None, filesize |-> 0, checksum |-> 0, should_unzip |-> FALSE]

\* message: absent
NoMessage == <<>>

\* client.utils.communication.FileMetadata, and the metadata object of the wire
FileMetadata(filename, filesize, checksum, should_unzip) ==
    [filename |-> filename, filesize |-> filesize, checksum |-> checksum,
     should_unzip |-> should_unzip]

RequestData(action, session, role, metadata, target, sdp, candidate) ==
    [action |-> action, session |-> session, role |-> role, metadata |-> metadata,
     target |-> target, sdp |-> sdp, candidate |-> candidate]

Reply(status, message, action, metadata, sdp, candidate) ==
    [status |-> status, message |-> message, action |-> action,
     metadata |-> metadata, sdp |-> sdp, candidate |-> candidate]

Registered == Reply("registered", NoMessage, None, NoMetadata, None, None)
ErrorReply(message) == Reply("error", message, None, NoMetadata, None, None)
MetadataMsg(metadata) == Reply(None, NoMessage, "metadata", metadata, None, None)
OfferMsg(sdp) == Reply(None, NoMessage, "offer", NoMetadata, sdp, None)
AnswerMsg(sdp) == Reply(None, NoMessage, "answer", NoMetadata, sdp, None)
CandidateMsg(candidate) == Reply(None, NoMessage, "candidate", NoMetadata, None, candidate)
CancelMsg == Reply(None, NoMessage, "cancel", NoMetadata, None, None)
\* the literal text, which is no JSON object
InvalidMessage == Reply("Invalid message", NoMessage, None, NoMetadata, None, None)

\* f"{role} already registered in session {session_name}"
AlreadyRegistered(role, name) == <<role, " already registered in session ", name>>
\* f"Session {session_name} does not exist"
DoesNotExist(name) == <<"Session ", name, " does not exist">>

\* Python truthiness of an optional string
Truthy(v) == v /= None /\ v /= ""

VARIABLES
    sessions,   \* server.sessions: session name -> record (a dict)
    order,      \* the keys of sessions in insertion order
    wsState,    \* per connection: "idle", "open", "closing", "closed"
    inbox,      \* per connection: requests on their way to the server
    outbox,     \* per connection: replies sent by the server, not yet read
    hpc,        \* per connection: where its handler is suspended
    hreq,       \* per connection: the request its handler is serving
    last,       \* the last step the server took (history)
    nreq,       \* requests sent so far by the arbitrary clients
    snd,        \* the Sender object and its coroutines
    rcv,        \* the Receiver object, its coroutines and its working directory
    dc,         \* the data channel "filetransfer" between the two peers
    size_call   \* a call of get_human_readable_file_size: its locals and its result

serverVars == <<sessions, order, wsState, inbox, outbox, hpc, hreq, last>>

clientVars == <<snd, rcv, dc, size_call>>

vars == <<sessions, order, wsState, inbox, outbox, hpc, hreq, last, nreq, snd, rcv, dc,
          size_call>>

\* no call of get_human_readable_file_size is under way
NoCall == [pc |-> "none"]


(***************************************************************************)
(* The signalling server.                                                  *)
(***************************************************************************)
\* the keys of a session record
SessionKeys == {"sender", "receiver", "messages", "metadata"}

\* the record __register_sender creates
NewSession(metadata) ==
    [sender |-> NoWs, receiver |-> NoWs,
     messages |-> [offer |-> None, answer |-> None, candidates |-> <<>>],
     metadata |-> metadata]

\* sessions[name][key] is not None, for a key of the record
IsNotNone(rec, key) ==
    CASE key = "sender" -> rec.sender /= NoWs
      [] key = "receiver" -> rec.receiver /= NoWs
      [] key = "messages" -> TRUE
      [] key = "metadata" -> rec.metadata /= NoMetadata

\* del sessions[name]
DelSession(ss, name) == [n \in (DOMAIN ss) \ {name} |-> ss[n]]

DelKey(ord, name) == SelectSeq(ord, LAMBDA n : n /= name)

\* the first (role, session) whose slot holds the websocket, in dict order
get_role_and_session_name(ss, ord, c) ==
    LET held == SelectSeq(ord, LAMBDA n : ss[n].sender = c \/ ss[n].receiver = c)
    IN  IF held = <<>> THEN <<None, None>>
        ELSE <<IF ss[held[1]].sender = c THEN "sender" ELSE "receiver", held[1]>>

\* a cleanup that clears the slot and leaves the record in place
clear_slot_only(ss, ord, c) ==
    LET held == SelectSeq(ord, LAMBDA n : ss[n].sender = c \/ ss[n].receiver = c)
    IN  IF held = <<>> THEN [sessions |-> ss, order |-> ord]
        ELSE [sessions |-> [ss EXCEPT ![held[1]][IF ss[held[1]].sender = c THEN "sender"
                                                  ELSE "receiver"] = NoWs],
              order |-> ord]

\* cleanup(websocket): the session map and its key order afterwards
cleanup(ss, ord, c) ==
    LET found == get_role_and_session_name(ss, ord, c)
        role == found[1]
        name == found[2]
        cleared == [ss EXCEPT ![name][role] = NoWs]
    IN  IF role /= None /\ name /= None
        THEN IF cleared[name].sender = NoWs /\ cleared[name].receiver = NoWs
             THEN [sessions |-> DelSession(cleared, name), order |-> DelKey(ord, name)]
             ELSE [sessions |-> cleared, order |-> ord]
        ELSE [sessions |-> ss, order |-> ord]

\* websocket.send succeeds on an open connection and raises ConnectionClosed otherwise
CanSend(c) == wsState[c] = "open"

Sent(ob, c, m, by) == [ob EXCEPT ![c] = Append(@, [msg |-> m, by |-> by])]

Step(c, req, result) == [conn |-> c, req |-> req, result |-> result]

\* a handler step of connection c that ends normally, suspended at pc or finished ("idle")
Continue(c, req, ss, ord, ob, pc, result) ==
    /\ sessions' = ss
    /\ order' = ord
    /\ outbox' = ob
    /\ hpc' = [hpc EXCEPT ![c] = pc]
    /\ hreq' = [hreq EXCEPT ![c] = IF pc = "idle" THEN None ELSE req.session]
    /\ wsState' = wsState
    /\ last' = Step(c, req, result)

\* server_loop: an exception leaves the loop, cleanup runs, the connection ends
Raise(c, req, ss, ord, ob) ==
    /\ sessions' = cleanup(ss, ord, c).sessions
    /\ order' = cleanup(ss, ord, c).order
    /\ outbox' = ob
    /\ hpc' = [hpc EXCEPT ![c] = "idle"]
    /\ hreq' = [hreq EXCEPT ![c] = None]
    /\ wsState' = [wsState EXCEPT ![c] = "closed"]
    /\ last' = Step(c, req, "raised")

\* "if <slot>: await <slot>.send(...)", the tail of the relaying handlers
Forward(c, req, ss, target, m) ==
    IF target = NoWs
    THEN Continue(c, req, ss, order, outbox, "idle", "stored")
    ELSE IF CanSend(target)
         THEN Continue(c, req, ss, order, Sent(outbox, target, m, req.action), "idle", "forwarded")
         ELSE Raise(c, req, ss, order, outbox)

\* an offer handler that passes over an offer for a session it does not know
offer_if_known(c, req) ==
    IF req.session \notin DOMAIN sessions
    THEN Continue(c, req, sessions, order, outbox, "idle", "no session")
    ELSE LET ss == [sessions EXCEPT ![req.session].messages.offer = req.sdp]
         IN  Forward(c, req, ss, ss[req.session].receiver, OfferMsg(req.sdp))

OfferHandler(c, req) ==
    IF req.session \notin DOMAIN sessions
    THEN Raise(c, req, sessions, order, outbox)
    ELSE LET ss == [sessions EXCEPT ![req.session].messages.offer = req.sdp]
         IN  Forward(c, req, ss, ss[req.session].receiver, OfferMsg(req.sdp))

AnswerHandler(c, req) ==
    IF req.session \notin DOMAIN sessions
    THEN Raise(c, req, sessions, order, outbox)
    ELSE LET ss == [sessions EXCEPT ![req.session].messages.answer = req.sdp]
         IN  Forward(c, req, ss, ss[req.session].sender, AnswerMsg(req.sdp))

CandidateHandler(c, req) ==
    IF req.session \notin DOMAIN sessions
    THEN Raise(c, req, sessions, order, outbox)
    ELSE LET ss == [sessions EXCEPT ![req.session].messages.candidates =
                        Append(@, [target |-> req.target, candidate |-> req.candidate])]
         IN  IF req.target \notin {"sender", "receiver"}
             THEN Raise(c, req, ss, order, outbox)
             ELSE Forward(c, req, ss, ss[req.session][req.target], CandidateMsg(req.candidate))

CancelHandler(c, req) ==
    IF req.session \notin DOMAIN sessions
    THEN Raise(c, req, sessions, order, outbox)
    ELSE Forward(c, req, sessions, sessions[req.session].sender, CancelMsg)

\* RegisterHandler.__register_sender
register_sender(c, req) ==
    LET ss == [n \in (DOMAIN sessions) \cup {req.session} |->
                  IF n = req.session
                  THEN [NewSession(req.metadata) EXCEPT !.sender = c]
                  ELSE sessions[n]]
        ord == IF req.session \in DOMAIN sessions THEN order ELSE Append(order, req.session)
    IN  IF CanSend(c)
        THEN Continue(c, req, ss, ord, Sent(outbox, c, Registered, "register"), "idle", "registered")
        ELSE Raise(c, req, ss, ord, outbox)

\* a registration that opens a session for a receiver that names an unknown one
register_or_create(c, req) ==
    LET made == [n \in (DOMAIN sessions) \cup {req.session} |->
                    IF n \in DOMAIN sessions THEN sessions[n] ELSE NewSession(NoMetadata)]
        ss == [made EXCEPT ![req.session].receiver = c]
        ord == IF req.session \in DOMAIN sessions THEN order ELSE Append(order, req.session)
    IN  IF CanSend(c)
        THEN Continue(c, req, ss, ord, Sent(outbox, c, Registered, "register"),
                      "send metadata", "registered")
        ELSE Raise(c, req, ss, ord, outbox)

\* RegisterHandler.__register_receiver, up to its first awaited send or close
register_receiver(c, req) ==
    IF req.session \notin DOMAIN sessions
    THEN IF CanSend(c)
         THEN /\ sessions' = sessions
              /\ order' = order
              /\ outbox' = Sent(outbox, c, ErrorReply(DoesNotExist(req.session)), "register")
              /\ hpc' = hpc
              /\ hreq' = hreq
              /\ wsState' = [wsState EXCEPT ![c] = "closing"]
              /\ last' = Step(c, req, "no session")
         ELSE Raise(c, req, sessions, order, outbox)
    ELSE LET ss == [sessions EXCEPT ![req.session].receiver = c]
         IN  IF CanSend(c)
             THEN Continue(c, req, ss, order, Sent(outbox, c, Registered, "register"),
                           "send metadata", "registered")
             ELSE Raise(c, req, ss, order, outbox)

\* a handler that registers without looking at the slot
register_unchecked(c, req) ==
    CASE req.role = "sender" -> register_sender(c, req)
      [] req.role = "receiver" -> register_receiver(c, req)
      [] OTHER -> Raise(c, req, sessions, order, outbox)

\* RegisterHandler.handle
RegisterHandler(c, req) ==
    IF req.session \in DOMAIN sessions /\ req.role \notin SessionKeys
    THEN Raise(c, req, sessions, order, outbox)
    ELSE IF req.session \in DOMAIN sessions /\ IsNotNone(sessions[req.session], req.role)
    THEN IF CanSend(c)
         THEN Continue(c, req, sessions, order,
                       Sent(outbox, c, ErrorReply(AlreadyRegistered(req.role, req.session)), "register"),
                       "idle", "already registered")
         ELSE Raise(c, req, sessions, order, outbox)
    ELSE CASE req.role = "sender" -> register_sender(c, req)
           [] req.role = "receiver" -> register_receiver(c, req)
           [] OTHER -> Raise(c, req, sessions, order, outbox)

\* a loop that passes over a message no handler takes
drop_unknown(c, req) == Continue(c, req, sessions, order, outbox, "idle", "invalid")

\* server_loop: "if not handled: await websocket.send('Invalid message')"
NotHandled(c, req) ==
    IF CanSend(c)
    THEN Continue(c, req, sessions, order, Sent(outbox, c, InvalidMessage, "server_loop"), "idle", "invalid")
    ELSE Raise(c, req, sessions, order, outbox)

\* server_loop: the handler whose should_handle accepts the request
Dispatch(c, req) ==
    CASE req.action = "answer" -> AnswerHandler(c, req)
      [] req.action = "cancel" -> CancelHandler(c, req)
      [] req.action = "candidate" -> CandidateHandler(c, req)
      [] req.action = "offer" -> OfferHandler(c, req)
      [] req.action = "register" -> RegisterHandler(c, req)
      [] OTHER -> NotHandled(c, req)

\* server_loop takes the next message of a connection
ServerRecv(c) ==
    /\ wsState[c] \in {"open", "closing"}
    /\ hpc[c] = "idle"
    /\ inbox[c] /= <<>>
    /\ Dispatch(c, Head(inbox[c]))
    /\ inbox' = [inbox EXCEPT ![c] = IF wsState'[c] = "closed" THEN <<>> ELSE Tail(@)]
    /\ UNCHANGED <<nreq, clientVars>>

\* __register_receiver resumes after "registered" was sent: the metadata message
SendMetadata(c) ==
    LET req == RequestData("register", hreq[c], "receiver", NoMetadata, None, None, None)
    IN  /\ hpc[c] = "send metadata"
        /\ IF hreq[c] \in DOMAIN sessions /\ CanSend(c)
           THEN Continue(c, req, sessions, order,
                         Sent(outbox, c, MetadataMsg(sessions[hreq[c]].metadata), "register"),
                         "send offer", "metadata")
           ELSE Raise(c, req, sessions, order, outbox)
        /\ inbox' = [inbox EXCEPT ![c] = IF wsState'[c] = "closed" THEN <<>> ELSE @]
        /\ UNCHANGED <<nreq, clientVars>>

\* a registration that also replays the candidates stored for the receiver
ReplayStored(c) ==
    LET req == RequestData("register", hreq[c], "receiver", NoMetadata, None, None, None)
    IN  /\ hpc[c] = "send offer"
        /\ IF hreq[c] \notin DOMAIN sessions \/ ~CanSend(c)
           THEN Raise(c, req, sessions, order, outbox)
           ELSE LET stored == sessions[hreq[c]].messages
                    mine == SelectSeq(stored.candidates, LAMBDA m : m.target = "receiver")
                    offer == IF Truthy(stored.offer)
                             THEN <<[msg |-> OfferMsg(stored.offer), by |-> "register"]>>
                             ELSE <<>>
                    replay == [i \in 1..Len(mine) |->
                                  [msg |-> CandidateMsg(mine[i].candidate), by |-> "register"]]
                IN  Continue(c, req, sessions, order,
                             [outbox EXCEPT ![c] = @ \o offer \o replay], "idle", "offer")
        /\ inbox' = [inbox EXCEPT ![c] = IF wsState'[c] = "closed" THEN <<>> ELSE @]
        /\ UNCHANGED <<nreq, clientVars>>

\* __register_receiver resumes after the metadata was sent: the stored offer, if any
SendStoredOffer(c) ==
    LET req == RequestData("register", hreq[c], "receiver", NoMetadata, None, None, None)
    IN  /\ hpc[c] = "send offer"
        /\ IF hreq[c] \notin DOMAIN sessions
           THEN Raise(c, req, sessions, order, outbox)
           ELSE IF ~Truthy(sessions[hreq[c]].messages.offer)
           THEN Continue(c, req, sessions, order, outbox, "idle", "no offer")
           ELSE IF CanSend(c)
           THEN Continue(c, req, sessions, order,
                         Sent(outbox, c, OfferMsg(sessions[hreq[c]].messages.offer), "register"),
                         "idle", "offer")
           ELSE Raise(c, req, sessions, order, outbox)
        /\ inbox' = [inbox EXCEPT ![c] = IF wsState'[c] = "closed" THEN <<>> ELSE @]
        /\ UNCHANGED <<nreq, clientVars>>

\* server_loop: the connection has ended and its messages are consumed: finally cleanup
ServerCleanup(c) ==
    /\ wsState[c] = "closing"
    /\ hpc[c] = "idle"
    /\ inbox[c] = <<>>
    /\ sessions' = cleanup(sessions, order, c).sessions
    /\ order' = cleanup(sessions, order, c).order
    /\ wsState' = [wsState EXCEPT ![c] = "closed"]
    /\ last' = Step(c, RequestData(None, None, None, NoMetadata, None, None, None), "cleanup")
    /\ UNCHANGED <<inbox, outbox, hpc, hreq, nreq, clientVars>>

\* the steps the server takes on its own, once a request is being served
ServerResume ==
    \E c \in Conns :
        \/ SendMetadata(c)
        \/ SendStoredOffer(c)
        \/ ServerCleanup(c)

(***************************************************************************)
(* The two peers.  Sizes are counted in bytes; a file of n MB holds the    *)
(* blocks 1..n, one per MB, so that a lost, repeated or misplaced chunk    *)
(* shows in the content.                                                   *)
(***************************************************************************)
\* the largest payload, in MB
MaxFileMB == 3
\* the largest CHUNK_SIZE_BYTES, in MB
MaxChunkMB == 2
\* the largest max_ram_mb
MaxRamMB == 2
\* ICE candidates the two peers gather in a run
MaxCandidates == 1

\* SessionConfig.chunk_size_megabytes: bytes / 1024.0 / 1024.0
Mega == 1024 * 1024

SenderWs == NumConns - 1
ReceiverWs == NumConns

\* what the server leaves alone when a client acts
serverOnly == <<sessions, order, hpc, hreq, last, nreq, size_call>>

\* math.ceil(a / b)
Ceil(a, b) == (a + b - 1) \div b

\* math.floor(max_ram_mb / chunk_size_megabytes())
chunks_per_part(max_ram_mb, chunk_size_bytes) == (max_ram_mb * Mega) \div chunk_size_bytes

Min(a, b) == IF a < b THEN a ELSE b

\* file.read(size) at offset pos (in blocks): the next bytes, empty at the end of the file
read(file, pos, size) == SubSeq(file, pos + 1, Min(pos + size \div Mega, Len(file)))

RECURSIVE Flatten(_)
\* the bytes of a list of chunks, in order
Flatten(chunks) == IF chunks = <<>> THEN <<>> ELSE Head(chunks) \o Flatten(Tail(chunks))

RECURSIVE get_file_checksum(_)
\* get_file_checksum: a digest that tells any two contents of the model apart
get_file_checksum(content) ==
    IF content = <<>> THEN 1
    ELSE get_file_checksum(SubSeq(content, 1, Len(content) - 1)) * (MaxFileMB + 2)
         + content[Len(content)]

\* websocket.send of a client
ToServer(c, req) == inbox' = [inbox EXCEPT ![c] = Append(@, req)]

\* websocket.close, and leaving "async with websockets.connect(...)"
CloseWs(c) == wsState' = [wsState EXCEPT ![c] = IF @ = "open" THEN "closing" ELSE @]

\* the connection is gone for the client: recv raises once the queue is drained
Gone(c) == wsState[c] # "open" /\ outbox[c] = <<>>

(***************************************************************************)
(* The sender.                                                             *)
(***************************************************************************)
\* registrations one sender attempts
MaxAttempts == 3

\* __generate_random_session_name: the names it draws from when no other sender is around
Generated == {"ape-bat-cat"}

\* Sender.__init__ for a payload of the given content
NewSender(file, original, chunk_size_bytes, temporary) ==
    [pc |-> "start",
     CHUNK_SIZE_BYTES |-> chunk_size_bytes,
     is_file_temporary |-> temporary,
     file |-> file,
     file_exists |-> TRUE,
     FILE_METADATA |-> FileMetadata(IF temporary THEN "tmp.zip" ELSE "file.bin",
                                    Len(original) * Mega, get_file_checksum(original), temporary),
     did_receiver_finish |-> FALSE,
     ack_received |-> TRUE,
     session_name |-> None,
     names |-> Generated,
     attempts |-> 0,
     signaling |-> "stable",
     send_file |-> "none",
     close_connection |-> "none",
     pos |-> 0,
     chunk |-> <<>>,
     count |-> 0,
     emitted |-> <<>>,
     acked |-> 0,
     candidates |-> 0,
     announced |-> 0,
     result |-> None]

\* a cleanup that sets the events and leaves the files alone
set_events_only(s, pc) ==
    [s EXCEPT !.pc = pc,
              !.did_receiver_finish = TRUE,
              !.ack_received = TRUE,
              !.close_connection = IF @ = "waiting" THEN "cancelled" ELSE @]

\* Sender.__cleanup, at the end of __call__: both events are set, which wakes the
\* coroutines that wait for them; __close_connection then finds the websocket closed
sender_cleanup(s, pc) ==
    [s EXCEPT !.pc = pc,
              !.did_receiver_finish = TRUE,
              !.ack_received = TRUE,
              !.file_exists = IF s.is_file_temporary THEN FALSE ELSE @,
              !.close_connection = IF @ = "waiting" THEN "cancelled" ELSE @]

\* __call__ is left, normally or by an exception: the websocket closes, finally runs
SenderLeave(pc) ==
    /\ snd' = sender_cleanup(snd, pc)
    /\ CloseWs(SenderWs)

SenderRunning == snd.pc \notin {"start", "done", "failed"}

SenderConnect ==
    /\ snd.pc = "start"
    /\ wsState[SenderWs] = "idle"
    /\ wsState' = [wsState EXCEPT ![SenderWs] = "open"]
    /\ snd' = [snd EXCEPT !.pc = "register"]
    /\ UNCHANGED <<inbox, outbox, rcv, dc, serverOnly>>

\* __register: a fresh random name is sent
SenderRegister ==
    /\ snd.pc = "register"
    /\ IF wsState[SenderWs] = "open"
       THEN /\ snd.attempts < MaxAttempts
            /\ \E name \in snd.names :
                /\ ToServer(SenderWs, RequestData("register", name, "sender", snd.FILE_METADATA,
                                                  None, None, None))
                /\ snd' = [snd EXCEPT !.pc = "await registered", !.session_name = name,
                                      !.attempts = @ + 1]
                /\ UNCHANGED wsState
       ELSE SenderLeave("failed") /\ UNCHANGED inbox
    /\ UNCHANGED <<outbox, rcv, dc, serverOnly>>

\* a loop that takes whatever reply comes as the end of the registration
accept_any_reply(session_name, response_data) == "registered"

\* __register: what the loop does with the reply to the register of session_name
register_reply(session_name, response_data) ==
    IF response_data.status = "error"
    THEN IF response_data.message /= AlreadyRegistered("sender", session_name)
         THEN "raise"
         ELSE "retry"
    ELSE "registered"

\* __register: the reply; then __prepare_rtc_connection and __prepare_data_channel
SenderRecvRegistered ==
    /\ snd.pc = "await registered"
    /\ IF outbox[SenderWs] /= <<>>
       THEN LET response_data == Head(outbox[SenderWs]).msg
            IN  /\ outbox' = [outbox EXCEPT ![SenderWs] = Tail(@)]
                /\ CASE register_reply(snd.session_name, response_data) = "raise" ->
                            SenderLeave("failed")
                     [] register_reply(snd.session_name, response_data) = "retry" ->
                            snd' = [snd EXCEPT !.pc = "register"] /\ UNCHANGED wsState
                     [] OTHER ->
                            /\ snd' = [snd EXCEPT !.pc = "send offer", !.announced = @ + 1]
                            /\ UNCHANGED wsState
       ELSE /\ wsState[SenderWs] /= "open"
            /\ SenderLeave("failed")
            /\ UNCHANGED outbox
    /\ UNCHANGED <<inbox, rcv, dc, serverOnly>>

\* __send_offer
SenderSendOffer ==
    /\ snd.pc = "send offer"
    /\ IF wsState[SenderWs] = "open"
       THEN /\ ToServer(SenderWs, RequestData("offer", snd.session_name, None, NoMetadata,
                                              None, "offer of sender", None))
            /\ snd' = [snd EXCEPT !.pc = "messages", !.signaling = "have-local-offer"]
            /\ UNCHANGED wsState
       ELSE SenderLeave("failed") /\ UNCHANGED inbox
    /\ UNCHANGED <<outbox, rcv, dc, serverOnly>>

\* on_icecandidate: candidates are gathered until the peers are connected
SenderIceCandidate ==
    /\ snd.pc = "messages"
    /\ dc.state = "new"
    /\ snd.candidates + rcv.candidates < MaxCandidates
    /\ wsState[SenderWs] = "open"
    /\ ToServer(SenderWs, RequestData("candidate", snd.session_name, None, NoMetadata,
                                      "receiver", None, "candidate of sender"))
    /\ snd' = [snd EXCEPT !.candidates = @ + 1]
    /\ UNCHANGED <<wsState, outbox, rcv, dc, serverOnly>>

\* RTCPeerConnection.setRemoteDescription(answer): the signalling state afterwards, or
\* "InvalidStateError" when no offer of ours is pending
setRemoteAnswer(signaling) ==
    IF signaling = "have-local-offer" THEN "stable" ELSE "InvalidStateError"

\* __handle_incoming_messages: one message of the server
SenderMessage ==
    /\ snd.pc = "messages"
    /\ outbox[SenderWs] /= <<>>
    /\ outbox' = [outbox EXCEPT ![SenderWs] = Tail(@)]
    /\ LET data == Head(outbox[SenderWs]).msg
       IN  CASE data.action = "answer" ->
                    IF setRemoteAnswer(snd.signaling) = "InvalidStateError"
                    THEN SenderLeave("failed")
                    ELSE /\ snd' = [snd EXCEPT !.signaling = setRemoteAnswer(snd.signaling)]
                         /\ UNCHANGED wsState
             [] data.action = "cancel" ->
                    \* __handle_cancel, and __close_connection which no longer waits
                    /\ snd' = [snd EXCEPT !.did_receiver_finish = TRUE, !.result = "canceled"]
                    /\ CloseWs(SenderWs)
             [] OTHER -> UNCHANGED <<snd, wsState>>
    /\ UNCHANGED <<inbox, rcv, dc, serverOnly>>

\* __handle_incoming_messages ends with the connection; __call__ returns through finally
SenderLoopEnd ==
    /\ snd.pc = "messages"
    /\ Gone(SenderWs)
    /\ SenderLeave("done")
    /\ UNCHANGED <<inbox, outbox, rcv, dc, serverOnly>>

\* on_open of the data channel: __send_file and __close_connection are scheduled
SenderOnOpen ==
    /\ SenderRunning
    /\ dc.state = "announced"
    /\ dc' = [dc EXCEPT !.state = "open"]
    /\ snd' = [snd EXCEPT !.send_file = "ready", !.close_connection = "waiting"]
    /\ UNCHANGED <<wsState, inbox, outbox, rcv, serverOnly>>

\* self.__ack_received.clear()
clear(ack_received) == FALSE

RECURSIVE send_file_loop(_, _)
\* __send_file from the top of its loop to the point where it blocks, returns or fails;
\* t holds its locals, the event and the frames it has put on the channel
send_file_loop(s, t) ==
    LET chunk == read(s.file, t.pos, s.CHUNK_SIZE_BYTES)
        chunks_in_file == Ceil(s.FILE_METADATA.filesize, s.CHUNK_SIZE_BYTES)
    IN  IF chunks_in_file = 0 THEN [t EXCEPT !.pc = "ZeroDivisionError"]
        ELSE IF chunk = <<>> THEN [t EXCEPT !.pc = "done"]
        ELSE IF ~t.ack_received
             THEN [t EXCEPT !.pc = "waiting", !.chunk = chunk, !.pos = @ + Len(chunk)]
        ELSE IF ~t.open THEN [t EXCEPT !.pc = "InvalidStateError"]
        ELSE send_file_loop(s, [t EXCEPT !.ack_received = clear(@),
                                         !.sent = Append(@, chunk),
                                         !.pos = @ + Len(chunk),
                                         !.count = @ + 1])

\* __send_file resumed after "await self.__ack_received.wait()"
send_file_resume(s, t) ==
    IF ~t.open THEN [t EXCEPT !.pc = "InvalidStateError"]
    ELSE send_file_loop(s, [t EXCEPT !.ack_received = clear(@),
                                     !.sent = Append(@, t.chunk),
                                     !.count = @ + 1])

\* one run of the __send_file coroutine, from where it stands to where it blocks or ends;
\* open says whether the data channel is open
send_file(s, open) ==
    LET t == [pc |-> s.send_file, pos |-> s.pos, chunk |-> s.chunk, count |-> s.count,
              ack_received |-> s.ack_received, open |-> open, sent |-> <<>>]
    IN  IF s.send_file = "ready" THEN send_file_loop(s, t) ELSE send_file_resume(s, t)

\* the __send_file coroutine runs: when scheduled, and whenever the event it waits for is set
SenderSendFile ==
    /\ SenderRunning
    /\ \/ snd.send_file = "ready"
       \/ snd.send_file = "waiting" /\ snd.ack_received
    /\ LET t == send_file(snd, dc.state = "open")
       IN  /\ snd' = [snd EXCEPT !.send_file = t.pc, !.pos = t.pos, !.chunk = t.chunk,
                                 !.count = t.count, !.ack_received = t.ack_received,
                                 !.emitted = @ \o Flatten(t.sent)]
           /\ dc' = [dc EXCEPT !.toReceiver = @ \o t.sent]
    /\ UNCHANGED <<wsState, inbox, outbox, rcv, serverOnly>>

\* __call__ has returned and the event loop stops: what __cleanup woke runs once more
\* before the loop ends, and whatever still waits afterwards is cancelled
SenderLoopStops ==
    /\ snd.pc \in {"done", "failed"}
    /\ snd.send_file \in {"ready", "waiting"}
    /\ LET t == send_file(snd, dc.state = "open")
       IN  /\ snd' = [snd EXCEPT !.send_file = IF t.pc = "waiting" THEN "cancelled" ELSE t.pc,
                                 !.pos = t.pos, !.chunk = t.chunk,
                                 !.count = t.count, !.ack_received = t.ack_received,
                                 !.emitted = @ \o Flatten(t.sent)]
           /\ dc' = [dc EXCEPT !.toReceiver = @ \o t.sent]
    /\ UNCHANGED <<wsState, inbox, outbox, rcv, serverOnly>>

\* a shutdown that does not wait for the receiver
close_at_once(s) == TRUE

\* "await self.__did_receiver_finish.wait()" lets __close_connection pass
receiver_finished(s) == s.did_receiver_finish

\* the __close_connection coroutine scheduled by on_open: once receiver_finished is set
\* it stops the transceivers (a data channel has none) and closes the websocket
SenderCloseConnection ==
    /\ SenderRunning
    /\ snd.close_connection = "waiting"
    /\ receiver_finished(snd)
    /\ snd' = [snd EXCEPT !.close_connection = "done"]
    /\ CloseWs(SenderWs)
    /\ UNCHANGED <<inbox, outbox, rcv, dc, serverOnly>>

\* "Error" in message
HasError(message) == message = "Error: checksum mismatch"

\* on_message of the sender's data channel
sender_on_message(s, message) ==
    IF message = "Finished"
    THEN [s EXCEPT !.did_receiver_finish = TRUE, !.ack_received = TRUE, !.result = "successful"]
    ELSE IF message = "ack"
    THEN [s EXCEPT !.ack_received = TRUE, !.acked = @ + 1]
    ELSE IF HasError(message)
    THEN [s EXCEPT !.did_receiver_finish = TRUE, !.ack_received = TRUE, !.result = message]
    ELSE s

\* a text of the receiver arrives on the data channel
SenderOnMessage ==
    /\ SenderRunning
    /\ dc.state = "open"
    /\ dc.toSender /= <<>>
    /\ snd' = sender_on_message(snd, Head(dc.toSender))
    /\ dc' = [dc EXCEPT !.toSender = Tail(@)]
    /\ UNCHANGED <<wsState, inbox, outbox, rcv, serverOnly>>

Sender ==
    \/ SenderConnect
    \/ SenderRegister
    \/ SenderRecvRegistered
    \/ SenderSendOffer
    \/ SenderIceCandidate
    \/ SenderMessage
    \/ SenderLoopEnd
    \/ SenderOnOpen
    \/ SenderSendFile
    \/ SenderLoopStops
    \/ SenderCloseConnection
    \/ SenderOnMessage

(***************************************************************************)
(* The receiver.  files is its working directory: file name -> content.    *)
(***************************************************************************)
\* the destination file
Path(filename) == <<filename>>

\* f"{filename}.part{len(parts)}"
part_filename(filename, n) == <<filename, ".part", n>>

\* open(name, "wb") and write
WriteFile(files, name, content) ==
    [f \in (DOMAIN files) \cup {name} |-> IF f = name THEN content ELSE files[f]]

\* os.remove
RemoveFile(files, name) == [f \in (DOMAIN files) \ {name} |-> files[f]]

\* os.rename
RenameFile(files, from, to) == RemoveFile(WriteFile(files, to, files[from]), from)

\* Receiver.__init__
NewReceiver(max_ram_mb, chunk_size_bytes, accepts) ==
    [pc |-> "start",
     session_name |-> None,
     CHUNK_SIZE_BYTES |-> chunk_size_bytes,
     max_ram_mb |-> max_ram_mb,
     chunks_per_part |-> chunks_per_part(max_ram_mb, chunk_size_bytes),
     accepts |-> accepts,
     error |-> NoMessage,
     file_metadata |-> NoMetadata,
     answered |-> 0,
     candidates |-> 0,
     received_count |-> 0,
     chunks_count |-> 0,
     chunks |-> <<>>,
     parts |-> <<>>,
     files |-> <<>>,
     unpacked |-> FALSE,
     closing |-> FALSE,
     merged |-> <<>>,
     peak |-> 0,
     flushes |-> 0,
     texts |-> <<>>]

ReceiverRunning == rcv.pc \notin {"start", "done", "failed"}

\* the user runs "tunnel receive <name>" with the name the sender printed: connect, __register
ReceiverConnect ==
    /\ rcv.pc = "start"
    /\ snd.announced > 0
    /\ wsState[ReceiverWs] = "idle"
    /\ wsState' = [wsState EXCEPT ![ReceiverWs] = "open"]
    /\ ToServer(ReceiverWs, RequestData("register", snd.session_name, "receiver", NoMetadata,
                                        None, None, None))
    /\ rcv' = [rcv EXCEPT !.pc = "await registered", !.session_name = snd.session_name]
    /\ UNCHANGED <<outbox, snd, dc, serverOnly>>

\* __register: the reply
ReceiverRecvRegistered ==
    /\ rcv.pc = "await registered"
    /\ IF outbox[ReceiverWs] /= <<>>
       THEN /\ outbox' = [outbox EXCEPT ![ReceiverWs] = Tail(@)]
            /\ IF Head(outbox[ReceiverWs]).msg.status = "error"
               THEN /\ rcv' = [rcv EXCEPT !.pc = "failed",
                                          !.error = Head(outbox[ReceiverWs]).msg.message]
                    /\ CloseWs(ReceiverWs)
               ELSE rcv' = [rcv EXCEPT !.pc = "await metadata"] /\ UNCHANGED wsState
       ELSE /\ wsState[ReceiverWs] /= "open"
            /\ rcv' = [rcv EXCEPT !.pc = "failed"]
            /\ UNCHANGED <<outbox, wsState>>
    /\ UNCHANGED <<inbox, snd, dc, serverOnly>>

\* __get_file_metadata on the next message, then the user's answer to the prompt:
\* __prepare_rtc_connection, or cancel and close
ReceiverRecvMetadata ==
    /\ rcv.pc = "await metadata"
    /\ IF outbox[ReceiverWs] /= <<>>
       THEN LET metadata == Head(outbox[ReceiverWs]).msg
            IN  /\ outbox' = [outbox EXCEPT ![ReceiverWs] = Tail(@)]
                /\ IF metadata.metadata = NoMetadata
                   THEN \* KeyError or TypeError: the message carries no metadata object
                        /\ rcv' = [rcv EXCEPT !.pc = "failed"]
                        /\ CloseWs(ReceiverWs)
                        /\ UNCHANGED inbox
                   ELSE IF rcv.accepts
                   THEN /\ rcv' = [rcv EXCEPT !.pc = "messages", !.file_metadata = metadata.metadata]
                        /\ UNCHANGED <<wsState, inbox>>
                   ELSE /\ rcv' = [rcv EXCEPT !.pc = "done", !.file_metadata = metadata.metadata]
                        /\ IF wsState[ReceiverWs] = "open"
                           THEN ToServer(ReceiverWs, RequestData("cancel", rcv.session_name, None,
                                                                 NoMetadata, None, None, None))
                           ELSE UNCHANGED inbox
                        /\ CloseWs(ReceiverWs)
       ELSE /\ wsState[ReceiverWs] /= "open"
            /\ rcv' = [rcv EXCEPT !.pc = "failed"]
            /\ UNCHANGED <<outbox, wsState, inbox>>
    /\ UNCHANGED <<snd, dc, serverOnly>>

\* __handle_incoming_messages: one message of the server
ReceiverMessage ==
    /\ rcv.pc = "messages"
    /\ outbox[ReceiverWs] /= <<>>
    /\ outbox' = [outbox EXCEPT ![ReceiverWs] = Tail(@)]
    /\ LET data == Head(outbox[ReceiverWs]).msg
       IN  IF data.action = "offer"
           THEN \* __handle_offer
                IF wsState[ReceiverWs] = "open"
                THEN /\ ToServer(ReceiverWs, RequestData("answer", rcv.session_name, None,
                                                         NoMetadata, None, "answer of receiver", None))
                     /\ rcv' = [rcv EXCEPT !.answered = @ + 1]
                     /\ UNCHANGED wsState
                ELSE /\ rcv' = [rcv EXCEPT !.pc = "failed"]
                     /\ UNCHANGED <<inbox, wsState>>
           ELSE UNCHANGED <<rcv, inbox, wsState>>
    /\ UNCHANGED <<snd, dc, serverOnly>>

\* on_icecandidate: candidates are gathered until the peers are connected
ReceiverIceCandidate ==
    /\ rcv.pc = "messages"
    /\ rcv.answered > 0
    /\ dc.state = "new"
    /\ snd.candidates + rcv.candidates < MaxCandidates
    /\ wsState[ReceiverWs] = "open"
    /\ ToServer(ReceiverWs, RequestData("candidate", rcv.session_name, None, NoMetadata,
                                        "sender", None, "candidate of receiver"))
    /\ rcv' = [rcv EXCEPT !.candidates = @ + 1]
    /\ UNCHANGED <<wsState, outbox, snd, dc, serverOnly>>

\* __handle_incoming_messages ends with the connection, and __call__ with it
ReceiverLoopEnd ==
    /\ rcv.pc = "messages"
    /\ Gone(ReceiverWs)
    /\ rcv' = [rcv EXCEPT !.pc = "done"]
    /\ UNCHANGED <<wsState, inbox, outbox, snd, dc, serverOnly>>

\* on_datachannel: the channel the sender created shows up once both descriptions are set
ReceiverOnDatachannel ==
    /\ rcv.pc = "messages"
    /\ rcv.answered > 0
    /\ snd.pc = "messages"
    /\ snd.signaling = "stable"
    /\ dc.state = "new"
    /\ dc' = [dc EXCEPT !.state = "announced"]
    /\ rcv' = [rcv EXCEPT !.chunks = <<>>, !.parts = <<>>, !.received_count = 0,
                          !.chunks_count = Ceil(rcv.file_metadata.filesize, rcv.CHUNK_SIZE_BYTES)]
    /\ UNCHANGED <<wsState, inbox, outbox, snd, serverOnly>>

\* a receiver that writes a part only once the last chunk has arrived
flush_at_end(r) == r.received_count = r.chunks_count

\* "if len(chunks) == chunks_per_part or received_count == chunks_count"
should_flush(r) == Len(r.chunks) = r.chunks_per_part \/ r.received_count = r.chunks_count

\* a flush that numbers the part with the count of chunks received
flush_by_count(r) ==
    LET name == part_filename(r.file_metadata.filename, r.received_count)
    IN  [r EXCEPT !.files = WriteFile(@, name, Flatten(r.chunks)),
                  !.parts = Append(@, name),
                  !.chunks = <<>>,
                  !.flushes = @ + 1]

\* save_file into the next part, parts.append, chunks.clear()
flush(r) ==
    LET name == part_filename(r.file_metadata.filename, Len(r.parts))
    IN  [r EXCEPT !.files = WriteFile(@, name, Flatten(r.chunks)),
                  !.parts = Append(@, name),
                  !.chunks = <<>>,
                  !.flushes = @ + 1]

\* a merge that reopens the destination for every part, so that only the last one stays
LastPart(files, parts) == IF parts = <<>> THEN <<>> ELSE files[parts[Len(parts)]]

RECURSIVE Concat(_, _)
\* the parts appended in order
Concat(files, parts) ==
    IF parts = <<>> THEN <<>> ELSE files[Head(parts)] \o Concat(files, Tail(parts))

RECURSIVE RemoveAll(_, _)
RemoveAll(files, parts) ==
    IF parts = <<>> THEN files ELSE RemoveAll(RemoveFile(files, Head(parts)), Tail(parts))

\* __merge_file_parts: the working directory afterwards
merge_file_parts(files, filename, parts) ==
    IF Len(parts) = 1
    THEN RenameFile(RemoveFile(files, Path(filename)), parts[1], Path(filename))
    ELSE RemoveAll(WriteFile(files, Path(filename), Concat(files, parts)), parts)

\* a receiver that reports success without comparing the digests
always_finished(files, metadata) == "Finished"

\* __finalize_transfer: the text it sends
finalize_transfer(files, metadata) ==
    IF get_file_checksum(files[Path(metadata.filename)]) /= metadata.checksum
    THEN "Error: checksum mismatch"
    ELSE "Finished"

\* decompress_files(filename, session_name, delete_input=True); extracted says whether
\* ZipFile could extract the archive, else it raises before os.remove
decompress_files(r, extracted) ==
    IF extracted
    THEN [r EXCEPT !.unpacked = TRUE, !.files = RemoveFile(@, Path(r.file_metadata.filename))]
    ELSE r

\* a receiver that answers only from inside the flush branch, when the buffer was written
send_after_flush(r, text) == IF r.chunks = <<>> THEN [r EXCEPT !.texts = Append(@, text)] ELSE r

\* channel.send(text) of the receiver
channel_send(r, text) == [r EXCEPT !.texts = Append(@, text)]

\* on_message past "channel.send('ack')": merge, verify, close, unpack
finish(r, extracted) ==
    LET merged == merge_file_parts(r.files, r.file_metadata.filename, r.parts)
        done == [channel_send(r, finalize_transfer(merged, r.file_metadata))
                    EXCEPT !.files = merged,
                           !.merged = merged[Path(r.file_metadata.filename)],
                           !.closing = TRUE]
    IN  IF r.file_metadata.should_unzip THEN decompress_files(done, extracted) ELSE done

\* a receiver that takes the transfer for complete one chunk early
complete_early(r) == r.received_count + 1 >= r.chunks_count

\* "if self.__received_count == self.__chunks_count" after the ack
transfer_complete(r) == r.received_count = r.chunks_count

\* on_message of the receiver's data channel
receiver_on_message(r, message, extracted) ==
    LET counted == [r EXCEPT !.received_count = @ + 1,
                             !.chunks = Append(@, message),
                             !.peak = Len(r.chunks) + 1]
        flushed == IF should_flush(counted) THEN flush(counted) ELSE counted
        acked == channel_send(flushed, "ack")
    IN  IF transfer_complete(acked) THEN finish(acked, extracted) ELSE acked

\* a chunk of the sender arrives on the data channel
ReceiverOnMessage ==
    /\ ReceiverRunning
    /\ dc.state = "open"
    /\ dc.toReceiver /= <<>>
    /\ \E extracted \in BOOLEAN :
          LET r == receiver_on_message(rcv, Head(dc.toReceiver), extracted)
          IN  /\ extracted \/ (r.texts /= rcv.texts /\ HasError(r.texts[Len(r.texts)]))
              /\ rcv' = r
              /\ dc' = [dc EXCEPT !.toReceiver = Tail(@),
                                  !.toSender = @ \o SubSeq(r.texts, Len(rcv.texts) + 1, Len(r.texts))]
    /\ UNCHANGED <<wsState, inbox, outbox, snd, serverOnly>>

\* asyncio.ensure_future(self.__websocket.close()) runs
ReceiverCloseWs ==
    /\ ReceiverRunning
    /\ rcv.closing
    /\ rcv' = [rcv EXCEPT !.closing = FALSE]
    /\ CloseWs(ReceiverWs)
    /\ UNCHANGED <<inbox, outbox, snd, dc, serverOnly>>

Receiver ==
    \/ ReceiverConnect
    \/ ReceiverRecvRegistered
    \/ ReceiverRecvMetadata
    \/ ReceiverMessage
    \/ ReceiverIceCandidate
    \/ ReceiverLoopEnd
    \/ ReceiverOnDatachannel
    \/ ReceiverOnMessage
    \/ ReceiverCloseWs

(***************************************************************************)
(* Arbitrary clients: any connection may send any request or go away.      *)
(***************************************************************************)
\* the payload of the i-th request of a run: no two requests carry the same one
Tag(i) == <<"t1", "t2", "t3", "t4", "t5", "t6", "t7", "t8">>[i]

\* the requests a client may send as the i-th request of a run
Requests(i) ==
    {RequestData("register", n, "sender", FileMetadata(Tag(i), i, i, FALSE), None, None, None) :
            n \in Names}
    \cup {RequestData("register", n, r, NoMetadata, None, None, None) :
            n \in Names, r \in {"receiver", "admin"}}
    \cup {RequestData(a, n, None, NoMetadata, None, Tag(i), None) :
            a \in {"offer", "answer"}, n \in Names}
    \cup {RequestData("candidate", n, None, NoMetadata, t, None, Tag(i)) :
            n \in Names, t \in {"sender", "receiver"}}
    \cup {RequestData("cancel", n, None, NoMetadata, None, None, None) : n \in Names}
    \cup {RequestData("ping", None, None, NoMetadata, None, None, None)}

\* a client sends a request and server_loop takes it up
ClientRequest(c, req) ==
    /\ wsState[c] = "open"
    /\ hpc[c] = "idle"
    /\ inbox[c] = <<>>
    /\ nreq < MaxRequests
    /\ Dispatch(c, req)
    /\ nreq' = nreq + 1
    /\ UNCHANGED <<inbox, clientVars>>

ClientClose(c) ==
    /\ wsState[c] = "open"
    /\ wsState' = [wsState EXCEPT ![c] = "closing"]
    /\ UNCHANGED <<sessions, order, inbox, outbox, hpc, hreq, last, nreq, clientVars>>

\* no peer of this repository takes part
NoPeers ==
    /\ snd = [pc |-> "absent"]
    /\ rcv = [pc |-> "absent"]
    /\ dc = [state |-> "absent"]

ServerInit ==
    /\ NoPeers
    /\ size_call = NoCall
    /\ sessions = NoSessions
    /\ order = <<>>
    /\ wsState = [c \in Conns |-> "open"]
    /\ inbox = [c \in Conns |-> <<>>]
    /\ outbox = [c \in Conns |-> <<>>]
    /\ hpc = [c \in Conns |-> "idle"]
    /\ hreq = [c \in Conns |-> None]
    /\ last = Step(NoWs, RequestData(None, None, None, NoMetadata, None, None, None), "start")
    /\ nreq = 0

ServerNext ==
    \/ ServerResume
    \/ \E c \in Conns : \E req \in Requests(nreq + 1) : ClientRequest(c, req)
    \/ \E c \in Conns : ClientClose(c)

ServerSpec == ServerInit /\ [][ServerNext]_vars


(***************************************************************************)
(* get_human_readable_file_size.  A size is written in base 1024, most     *)
(* significant digit first, with the number of digits behind the point.    *)
(* The sizes drawn have SigDigits leading digits that may differ from 0,   *)
(* so they are floats without rounding and "/= 1024.0" moves the point.    *)
(***************************************************************************)
\* base-1024 digits of the largest size drawn
MaxDigits == 7

\* leading base-1024 digits of a size that may differ from 0
SigDigits == 3

Kilo == 1024

units == <<"B", "KB", "MB", "GB", "TB", "PB">>

\* the values of a digit that are drawn
Digits == {0, 1, 512, 1023}

\* the sizes the function is called with
Sizes ==
    {<<0>>} \cup
    {[i \in 1..n |-> IF i > SigDigits THEN 0 ELSE lead[i]] :
        n \in 1..MaxDigits, lead \in {f \in [1..SigDigits -> Digits] : f[1] /= 0}}

\* the digits before the point
whole_digits(v) == SubSeq(v.digits, 1, Len(v.digits) - v.point)

\* the digits behind the point
fraction_digits(v) == SubSeq(v.digits, Len(v.digits) - v.point + 1, Len(v.digits))

RECURSIVE from_digits(_)
from_digits(digits) ==
    IF digits = <<>> THEN 0
    ELSE from_digits(SubSeq(digits, 1, Len(digits) - 1)) * Kilo + digits[Len(digits)]

\* "size_bytes >= 1024"
at_least_kilo(v) == Len(v.digits) - v.point >= 2

\* "size_bytes /= 1024.0"
divide(v) == [v EXCEPT !.point = @ + 1]

RECURSIVE times_thousand(_, _, _)
\* 1000 times a fraction: the digits behind the point that remain, and what goes before it
times_thousand(fraction, carry, done) ==
    IF fraction = <<>> THEN [whole |-> carry, fraction |-> done]
    ELSE LET t == fraction[Len(fraction)] * 1000 + carry
         IN  times_thousand(SubSeq(fraction, 1, Len(fraction) - 1), t \div Kilo,
                            <<t % Kilo>> \o done)

\* a fraction against one half: -1 below, 0 equal, 1 above
against_half(fraction) ==
    IF fraction = <<>> THEN -1
    ELSE IF fraction[1] > Kilo \div 2 THEN 1
    ELSE IF fraction[1] < Kilo \div 2 THEN -1
    ELSE IF \E i \in 2..Len(fraction) : fraction[i] /= 0 THEN 1 ELSE 0

\* f"{size_bytes:.3f}": the number before the point and the three decimals, rounded to the
\* nearest, a tie to the even one
three_decimals(v) ==
    LET m == times_thousand(fraction_digits(v), 0, <<>>)
        up == against_half(m.fraction) = 1 \/ (against_half(m.fraction) = 0 /\ m.whole % 2 = 1)
        thousandths == m.whole + (IF up THEN 1 ELSE 0)
    IN  <<from_digits(whole_digits(v)) + thousandths \div 1000, thousandths % 1000>>

\* a loop that divides as long as the value is large
divide_while_large(v, unit_index) == at_least_kilo(v)

\* "while size_bytes >= 1024 and unit_index < len(units) - 1"
keep_dividing(v, unit_index) == at_least_kilo(v) /\ unit_index < Len(units) - 1

\* the function is called
HumanCall ==
    /\ size_call.pc = "none"
    /\ \E size_bytes \in Sizes :
          size_call' = [pc |-> "loop", argument |-> size_bytes,
                        size_bytes |-> [digits |-> size_bytes, point |-> 0],
                        unit_index |-> 0, mantissa |-> <<0, 0>>, unit |-> None]
    /\ UNCHANGED <<serverVars, nreq, snd, rcv, dc>>

\* one round of the loop
HumanDivide ==
    /\ size_call.pc = "loop"
    /\ keep_dividing(size_call.size_bytes, size_call.unit_index)
    /\ size_call' = [size_call EXCEPT !.size_bytes = divide(@), !.unit_index = @ + 1]
    /\ UNCHANGED <<serverVars, nreq, snd, rcv, dc>>

\* the loop is left and the text returned; units[unit_index] of a list of six
HumanReturn ==
    /\ size_call.pc = "loop"
    /\ ~keep_dividing(size_call.size_bytes, size_call.unit_index)
    /\ size_call' = [size_call EXCEPT
            !.pc = "returned",
            !.mantissa = three_decimals(size_call.size_bytes),
            !.unit = IF size_call.unit_index + 1 \in DOMAIN units
                     THEN units[size_call.unit_index + 1]
                     ELSE "IndexError"]
    /\ UNCHANGED <<serverVars, nreq, snd, rcv, dc>>

HumanNext ==
    \/ HumanCall
    \/ HumanDivide
    \/ HumanReturn

\* the calls of the function, each with one of the sizes
HumanSpec == ServerInit /\ [][HumanNext]_vars


(***************************************************************************)
(* The whole system: one sender, one receiver, the server between them.    *)
(***************************************************************************)
\* a payload of n MB
FileBlocks(n) == [i \in 1..n |-> i]

\* the payload after its last MB was rewritten (the file changed once its checksum was taken)
Altered(content) == [content EXCEPT ![Len(content)] = 0]

Init ==
    /\ size_call = NoCall
    /\ sessions = NoSessions
    /\ order = <<>>
    /\ wsState = [c \in Conns |-> "idle"]
    /\ inbox = [c \in Conns |-> <<>>]
    /\ outbox = [c \in Conns |-> <<>>]
    /\ hpc = [c \in Conns |-> "idle"]
    /\ hreq = [c \in Conns |-> None]
    /\ last = Step(NoWs, RequestData(None, None, None, NoMetadata, None, None, None), "start")
    /\ nreq = 0
    /\ dc = [state |-> "new", toReceiver |-> <<>>, toSender |-> <<>>]
    /\ \E size \in 0..MaxFileMB, chunk \in 1..MaxChunkMB, ram \in 1..MaxRamMB,
          temporary \in BOOLEAN, accepts \in BOOLEAN, altered \in BOOLEAN :
          /\ altered => size > 0
          /\ snd = NewSender(IF altered THEN Altered(FileBlocks(size)) ELSE FileBlocks(size),
                             FileBlocks(size), chunk * Mega, temporary)
          /\ rcv = NewReceiver(ram, chunk * Mega, accepts)

\* the server serves the peers
ServerStep ==
    \E c \in Conns :
        \/ ServerRecv(c)
        \/ SendMetadata(c)
        \/ SendStoredOffer(c)
        \/ ServerCleanup(c)

\* a websocket is lost on the way
WsDrop(c) ==
    /\ wsState[c] = "open"
    /\ wsState' = [wsState EXCEPT ![c] = "closing"]
    /\ UNCHANGED <<inbox, outbox, snd, rcv, dc, serverOnly>>

\* the data channel is lost on the way, with what it carries.  The channel the sender made
\* with createDataChannel has listeners for "open" and "message" only: on_close is put on
\* channels of the "datachannel" event, which the receiver, making no channel, never causes
DcClose ==
    /\ dc.state = "open"
    /\ dc' = [state |-> "closed", toReceiver |-> <<>>, toSender |-> <<>>]
    /\ UNCHANGED <<wsState, inbox, outbox, snd, rcv, serverOnly>>

Reliable ==
    \/ ServerStep
    \/ Sender
    \/ Receiver

Next ==
    \/ Reliable
    \/ WsDrop(SenderWs)
    \/ WsDrop(ReceiverWs)
    \/ DcClose

Spec == Init /\ [][Next]_vars

\* no connection is lost, and whatever can run is eventually run
FairSpec ==
    /\ Init
    /\ [][Reliable]_vars
    /\ WF_vars(ServerStep)
    /\ WF_vars(Sender)
    /\ WF_vars(Receiver)


(***************************************************************************)
(* The sender among other clients that register sessions of their own.     *)
(***************************************************************************)
\* the connections of the other clients
Others == Conns \ {SenderWs}

\* what the other clients send: they register, and they cancel
OtherRequests(i) == {req \in Requests(i) : req.action \in {"register", "cancel"}}

RegisterInit ==
    /\ size_call = NoCall
    /\ sessions = NoSessions
    /\ order = <<>>
    /\ wsState = [c \in Conns |-> IF c = SenderWs THEN "idle" ELSE "open"]
    /\ inbox = [c \in Conns |-> <<>>]
    /\ outbox = [c \in Conns |-> <<>>]
    /\ hpc = [c \in Conns |-> "idle"]
    /\ hreq = [c \in Conns |-> None]
    /\ last = Step(NoWs, RequestData(None, None, None, NoMetadata, None, None, None), "start")
    /\ nreq = 0
    /\ dc = [state |-> "new", toReceiver |-> <<>>, toSender |-> <<>>]
    /\ rcv = [NewReceiver(1, Mega, TRUE) EXCEPT !.pc = "absent"]
    /\ snd = [NewSender(FileBlocks(1), FileBlocks(1), Mega, FALSE) EXCEPT !.names = Names]

RegisterNext ==
    \/ SenderConnect
    \/ SenderRegister
    \/ SenderRecvRegistered
    \/ SenderSendOffer
    \/ SenderIceCandidate
    \/ SenderMessage
    \/ SenderLoopEnd
    \/ ServerStep
    \/ \E c \in Others : \E req \in OtherRequests(nreq + 1) : ClientRequest(c, req)
    \/ \E c \in Others : ClientClose(c)

RegisterSpec == RegisterInit /\ [][RegisterNext]_vars


(***************************************************************************)
(* Properties of the transfer.                                             *)
(***************************************************************************)
\* C1: at every moment the chunks the sender has put on the data channel are at most
\* one more than the "ack" texts it has processed (stop-and-wait)
StopAndWait == snd.count - snd.acked <= 1

\* the texts that end a transfer
Terminal == {"Finished", "Error: checksum mismatch"}

\* the receiver has run __merge_file_parts and __finalize_transfer
Finalized == \E i \in DOMAIN rcv.texts : rcv.texts[i] \in Terminal

\* the "ack" texts the receiver has sent
Acks == Cardinality({i \in DOMAIN rcv.texts : rcv.texts[i] = "ack"})

\* C2: once the receiver has run finalization, the destination file is the concatenation,
\* in emission order, of all the chunks the sender emitted
DestinationIsPayload == Finalized => rcv.merged = snd.emitted

\* a payload of three chunks went through two parts and the merge
MergedFromParts ==
    /\ Finalized
    /\ Len(rcv.parts) >= 2
    /\ rcv.chunks_per_part >= 2
    /\ Len(rcv.merged) >= 3
    /\ rcv.merged = snd.emitted

\* the transfer C3 speaks of: accepted, at least one chunk, the payload as announced
GoodTransfer ==
    /\ rcv.accepts
    /\ snd.FILE_METADATA.filesize > 0
    /\ get_file_checksum(snd.file) = snd.FILE_METADATA.checksum

\* both peers are through and the server holds no session
Completed ==
    /\ \E i \in DOMAIN rcv.texts : rcv.texts[i] = "Finished"
    /\ snd.did_receiver_finish
    /\ snd.pc = "done"
    /\ rcv.pc = "done"
    /\ wsState[SenderWs] = "closed"
    /\ wsState[ReceiverWs] = "closed"
    /\ sessions = <<>>

\* C3: an accepted transfer of at least one chunk whose payload matches its checksum
\* ends with "Finished" sent, receiver_finished set, the sender shut down, both
\* websockets closed and the session deleted
TransferCompletes == GoodTransfer ~> Completed

\* C4: for a payload of filesize 0 the sender's send routine, once the channel has opened,
\* runs to the end of the file with no frame emitted, so that the transfer can complete
EmptyPayloadIsSent ==
    (snd.FILE_METADATA.filesize = 0 /\ snd.send_file \notin {"none", "ready"}) =>
        (snd.send_file = "done" /\ snd.count = 0)

\* C5: when CHUNKS_PER_PART >= 1 the buffer holds fewer than CHUNKS_PER_PART chunks after
\* every message handler and never more than CHUNKS_PER_PART chunks inside one
BufferBounded ==
    rcv.max_ram_mb * Mega >= rcv.CHUNK_SIZE_BYTES =>
        /\ rcv.chunks_per_part >= 1
        /\ Len(rcv.chunks) < rcv.chunks_per_part
        /\ rcv.peak <= rcv.chunks_per_part

\* the buffer filled up to two chunks and was written out
BufferFilled ==
    /\ rcv.chunks_per_part = 2
    /\ rcv.peak = 2
    /\ rcv.flushes >= 1
    /\ rcv.chunks = <<>>

\* C6: when max_ram_mb is below the chunk size in MB, CHUNKS_PER_PART is at least 1, every
\* received chunk is flushed to a part of its own and the buffer never holds two chunks
OnePartPerChunk ==
    (rcv.max_ram_mb * Mega < rcv.CHUNK_SIZE_BYTES /\ rcv.received_count >= 1) =>
        /\ rcv.chunks_per_part >= 1
        /\ Len(rcv.parts) = rcv.received_count
        /\ rcv.peak <= 1

\* C7: after every message handler the receiver has sent one "ack" per message received
AckPerChunk == Acks = rcv.received_count

\* a chunk was acknowledged though it stayed in the buffer
AckWithoutFlush ==
    /\ rcv.received_count >= 1
    /\ rcv.chunks /= <<>>
    /\ Acks = rcv.received_count

(***************************************************************************)
(* Properties of the server.                                               *)
(***************************************************************************)
\* every record has a bound slot
SessionsBound ==
    \A n \in DOMAIN sessions : sessions[n].sender /= NoWs \/ sessions[n].receiver /= NoWs

\* a record that appears was created by the sender registration just handled
CreatedBySender ==
    \A n \in (DOMAIN sessions') \ (DOMAIN sessions) :
        /\ last'.req.action = "register"
        /\ last'.req.role = "sender"
        /\ last'.req.session = n
        /\ sessions'[n].sender = last'.conn

\* C8: every record of the session map has its sender or its receiver slot bound, a record
\* is created only by a sender registration, and it is gone once both slots are empty
SessionLifecycle == []SessionsBound /\ [][CreatedBySender]_vars

\* a cleanup emptied the sender slot and kept the record for its receiver
RecordKeptForReceiver ==
    /\ last.result = "cleanup"
    /\ \E n \in DOMAIN sessions :
          /\ sessions[n].sender = NoWs
          /\ sessions[n].receiver /= NoWs
          /\ sessions[n].receiver /= last.conn

\* c has just sent a register for a role slot that is bound
RegisterOnBoundSlot(c) ==
    /\ nreq' = nreq + 1
    /\ last'.conn = c
    /\ last'.req.action = "register"
    /\ last'.req.role \in {"sender", "receiver"}
    /\ last'.req.session \in DOMAIN sessions
    /\ sessions[last'.req.session][last'.req.role] /= NoWs

\* the collision reply goes to c and nothing else changes
CollisionReply(c) ==
    /\ sessions' = sessions
    /\ order' = order
    /\ hpc'[c] = "idle"
    /\ outbox' = [outbox EXCEPT ![c] =
            Append(@, [msg |-> [status |-> "error",
                                message |-> <<last'.req.role, " already registered in session ",
                                              last'.req.session>>,
                                action |-> None, metadata |-> NoMetadata, sdp |-> None,
                                candidate |-> None],
                       by |-> "register"])]

\* C9: a register for a role slot that is bound is answered with
\* "<role> already registered in session <name>" and leaves the session record as it was,
\* so that of two senders registering one name one is registered and one gets the error
RegisterCollision == [][\A c \in Conns : RegisterOnBoundSlot(c) => CollisionReply(c)]_vars

\* two connections registered as sender of one name: one holds the slot and the other got
\* the error
SecondSenderRejected ==
    /\ last.result = "already registered"
    /\ last.req.role = "sender"
    /\ sessions[last.req.session].sender /= last.conn
    /\ Len(outbox[sessions[last.req.session].sender]) >= 1
    /\ outbox[sessions[last.req.session].sender][1].msg.status = "registered"
    /\ outbox[last.conn][Len(outbox[last.conn])].msg.status = "error"

\* what a registration puts into the queue of a connection
FromRegistration(m) == [msg |-> m, by |-> "register"]

\* c has just sent a register for the empty receiver slot of a session that exists:
\* the slot is bound and {"status": "registered"} is sent
ReceiverBound(c) ==
    (/\ nreq' = nreq + 1
     /\ last'.conn = c
     /\ last'.req.action = "register"
     /\ last'.req.role = "receiver"
     /\ last'.req.session \in DOMAIN sessions
     /\ sessions[last'.req.session].receiver = NoWs)
    => /\ sessions' = [sessions EXCEPT ![last'.req.session].receiver = c]
       /\ outbox' = [outbox EXCEPT ![c] =
               Append(@, FromRegistration([status |-> "registered", message |-> NoMessage,
                                           action |-> None, metadata |-> NoMetadata,
                                           sdp |-> None, candidate |-> None]))]
       /\ hpc'[c] = "send metadata"

\* the registration of c goes on while c is there: the metadata message with the metadata
\* the session holds
MetadataFollows(c) ==
    (hpc[c] = "send metadata" /\ hpc'[c] /= hpc[c] /\ wsState'[c] = "open")
    => /\ sessions' = sessions
       /\ outbox' = [outbox EXCEPT ![c] =
               Append(@, FromRegistration([status |-> None, message |-> NoMessage,
                                           action |-> "metadata",
                                           metadata |-> sessions[hreq[c]].metadata,
                                           sdp |-> None, candidate |-> None]))]
       /\ hpc'[c] = "send offer"

\* the registration of c ends: the stored offer if there is one, and nothing more
OfferFollows(c) ==
    (hpc[c] = "send offer" /\ hpc'[c] /= hpc[c] /\ wsState'[c] = "open")
    => /\ sessions' = sessions
       /\ hpc'[c] = "idle"
       /\ outbox' = IF sessions[hreq[c]].messages.offer \in {None, ""}
                    THEN outbox
                    ELSE [outbox EXCEPT ![c] =
                            Append(@, FromRegistration([status |-> None, message |-> NoMessage,
                                                        action |-> "offer", metadata |-> NoMetadata,
                                                        sdp |-> sessions[hreq[c]].messages.offer,
                                                        candidate |-> None]))]

\* no candidate and no answer is sent by a registration
NothingElse ==
    \A c \in Conns : \A i \in DOMAIN outbox[c] :
        outbox[c][i].by = "register" => outbox[c][i].msg.action \notin {"candidate", "answer", "cancel"}

\* C10: a receiver that registers for the empty slot of an existing session is bound and
\* is sent "registered", then the stored metadata, then the stored offer if there is one,
\* and nothing else: stored candidates are not replayed
ReceiverRegistration ==
    /\ [][\A c \in Conns : ReceiverBound(c) /\ MetadataFollows(c) /\ OfferFollows(c)]_vars
    /\ []NothingElse

\* a receiver joined after the offer and a candidate for it were stored: it got the three
\* messages of the registration and no candidate
LateReceiverServed ==
    /\ last.result = "offer"
    /\ last.req.session \in DOMAIN sessions
    /\ sessions[last.req.session].receiver = last.conn
    /\ \E i \in DOMAIN sessions[last.req.session].messages.candidates :
          sessions[last.req.session].messages.candidates[i].target = "receiver"
    /\ Len(outbox[last.conn]) = 3
    /\ outbox[last.conn][1].msg.status = "registered"
    /\ outbox[last.conn][2].msg.metadata = sessions[last.req.session].metadata
    /\ outbox[last.conn][3].msg.sdp = sessions[last.req.session].messages.offer

(***************************************************************************)
(* Properties of the error paths.                                          *)
(***************************************************************************)
\* the server takes up a receiver register of connection c that names no session
RegisterForMissingSession(c) ==
    /\ hpc[c] = "idle"
    /\ wsState[c] = "open"
    /\ inbox[c] /= <<>>
    /\ inbox'[c] = Tail(inbox[c])
    /\ Head(inbox[c]).action = "register"
    /\ Head(inbox[c]).role = "receiver"
    /\ Head(inbox[c]).session \notin DOMAIN sessions

\* the error goes to c, the server closes the connection, the session map stays as it was
MissingSessionReply(c) ==
    /\ sessions' = sessions
    /\ order' = order
    /\ wsState'[c] = "closing"
    /\ outbox' = [outbox EXCEPT ![c] =
            Append(@, [msg |-> [status |-> "error",
                                message |-> <<"Session ", Head(inbox[c]).session, " does not exist">>,
                                action |-> None, metadata |-> NoMetadata, sdp |-> None,
                                candidate |-> None],
                       by |-> "register"])]

\* the receiver reads an error reply to its register
ReceiverReadsError ==
    /\ rcv.pc = "await registered"
    /\ outbox[ReceiverWs] /= <<>>
    /\ outbox'[ReceiverWs] = Tail(outbox[ReceiverWs])
    /\ Head(outbox[ReceiverWs]).msg.status = "error"

\* the receiver ends with no metadata read, and nothing of it runs afterwards
ReceiverExits ==
    /\ rcv'.pc = "failed"
    /\ rcv'.file_metadata = NoMetadata
    /\ rcv'.answered = 0
    /\ wsState'[ReceiverWs] /= "open"

\* C11: a receiver register that names a missing session is answered with the error
\* "Session <name> does not exist" and the server closes the connection, no record is
\* created and no slot bound; the receiver exits on the error reply, reads no metadata and
\* does not prompt
MissingSessionRefused ==
    /\ [][\A c \in Conns : RegisterForMissingSession(c) => MissingSessionReply(c)]_vars
    /\ [][ReceiverReadsError => ReceiverExits]_vars
    /\ [][rcv.pc = "failed" => rcv' = rcv]_vars

\* the receiver came after the sender had left: it was refused and has exited
ReceiverRefused ==
    /\ rcv.pc = "failed"
    /\ rcv.error = <<"Session ", rcv.session_name, " does not exist">>
    /\ rcv.file_metadata = NoMetadata
    /\ wsState[ReceiverWs] = "closed"
    /\ rcv.session_name \notin DOMAIN sessions

\* the sender reads the reply to its register
SenderReadsReply ==
    /\ snd.pc = "await registered"
    /\ outbox[SenderWs] /= <<>>
    /\ outbox'[SenderWs] = Tail(outbox[SenderWs])

\* the reply says that the name just tried is taken
NameTaken ==
    /\ Head(outbox[SenderWs]).msg.status = "error"
    /\ Head(outbox[SenderWs]).msg.message =
           <<"sender", " already registered in session ", snd.session_name>>

\* what the loop does with each kind of reply
RegistrationLoop ==
    /\ NameTaken <=> (snd'.pc = "register" /\ snd'.announced = snd.announced)
    /\ (Head(outbox[SenderWs]).msg.status = "error" /\ ~NameTaken)
           => (snd'.pc = "failed" /\ snd'.announced = snd.announced
               /\ wsState'[SenderWs] /= "open")
    /\ Head(outbox[SenderWs]).msg.status /= "error"
           => (snd'.pc = "send offer" /\ snd'.announced = snd.announced + 1)

\* the names under which the sender's connection is bound
BoundNames == {n \in DOMAIN sessions : sessions[n].sender = SenderWs}

\* one name at most, one announcement at most, and the name announced is the bound one
RegisteredOnce ==
    /\ Cardinality(BoundNames) <= 1
    /\ snd.announced <= 1
    /\ snd.announced = 1 => snd.pc \notin {"start", "register", "await registered"}
    /\ (snd.pc \notin {"start", "register", "await registered", "failed", "done"})
           => snd.announced = 1
    /\ (snd.announced = 1 /\ wsState[SenderWs] = "open") => BoundNames = {snd.session_name}

Declined == rcv.pc = "done" /\ ~rcv.accepts

\* C13: when the receiving user declines, the cancel of the receiver reaches the sender
\* through the server, and the sender that terminates has observed it
DeclineObserved == (Declined /\ snd.pc \in {"done", "failed"}) => snd.result = "canceled"

\* the data channel closes under a running sender while chunks are still missing
ClosesEarly ==
    /\ dc.state = "open"
    /\ dc'.state = "closed"
    /\ SenderRunning
    /\ rcv.received_count < rcv.chunks_count

\* C14: when the data channel closes before the receiver's counter has reached the total,
\* the close event sets receiver_finished and ack_received of the sender
CloseSetsBothSignals ==
    [][ClosesEarly => (snd'.did_receiver_finish /\ snd'.ack_received)]_vars

\* the receiver has sent the text
HasSent(text) == \E i \in DOMAIN rcv.texts : rcv.texts[i] = text

\* the digest of the reassembled destination is not the checksum of the metadata
Mismatch == get_file_checksum(rcv.merged) /= rcv.file_metadata.checksum

\* the terminal text follows the comparison of the digests
TerminalText ==
    /\ Finalized => (HasSent("Error: checksum mismatch") <=> Mismatch)
    /\ Finalized => (HasSent("Finished") <=> ~Mismatch)
    /\ ~(HasSent("Finished") /\ HasSent("Error: checksum mismatch"))

\* a text containing "Error" reaches the sender
SenderGetsError ==
    /\ dc.state = "open"
    /\ dc'.state = "open"
    /\ dc.toSender /= <<>>
    /\ dc'.toSender = Tail(dc.toSender)
    /\ Head(dc.toSender) = "Error: checksum mismatch"

\* C15: on a digest that differs from the metadata checksum the receiver sends
\* "Error: checksum mismatch" and never "Finished", on equal digests "Finished" and never an
\* Error text; the sender that gets a text containing "Error" sets receiver_finished and
\* ack_received, and receiver_finished stays set for its shutdown
ChecksumVerdict ==
    /\ []TerminalText
    /\ [][SenderGetsError => (snd'.did_receiver_finish /\ snd'.ack_received)]_vars
    /\ [][snd.did_receiver_finish => snd'.did_receiver_finish]_vars

\* the payload changed after its checksum was taken: the receiver reported the mismatch, the
\* sender saw it and its shutdown closed the websocket
MismatchReported ==
    /\ Finalized
    /\ Mismatch
    /\ HasSent("Error: checksum mismatch")
    /\ snd.result = "Error: checksum mismatch"
    /\ snd.close_connection = "done"
    /\ snd.pc = "done"

\* __call__ of the sender has returned or raised
SenderTerminated == snd.pc \in {"done", "failed"}

\* C16: once the sender has terminated, on whatever path, the temporary archive it made
\* for its payload no longer exists; a payload that is the user's own file is never removed
ArchiveRemoved ==
    /\ (SenderTerminated /\ snd.is_file_temporary) => ~snd.file_exists
    /\ ~snd.is_file_temporary => snd.file_exists

\* a transfer of an archive went through and the sender has left
ArchiveGoneAfterTransfer ==
    /\ snd.is_file_temporary
    /\ SenderTerminated
    /\ ~snd.file_exists
    /\ snd.result = "successful"

\* the slots that hold connection c
SlotsOf(c) ==
    {<<n, "sender">> : n \in {m \in DOMAIN sessions : sessions[m].sender = c}}
    \cup {<<n, "receiver">> : n \in {m \in DOMAIN sessions : sessions[m].receiver = c}}

\* C17: once a connection has terminated and cleanup has run for it, no slot of any session
\* holds it, whatever registers it had sent
UnboundAfterCleanup == \A c \in Conns : wsState[c] = "closed" => SlotsOf(c) = {}

\* c has just sent a message whose action no handler takes
UnknownAction(c) ==
    /\ nreq' = nreq + 1
    /\ last'.conn = c
    /\ last'.req.action \notin {"register", "offer", "answer", "candidate", "cancel"}

\* the literal text goes to c, nothing else is sent or changed, c is served on
InvalidMessageReply(c) ==
    /\ sessions' = sessions
    /\ order' = order
    /\ wsState' = wsState
    /\ wsState'[c] = "open"
    /\ hpc' = hpc
    /\ hpc'[c] = "idle"
    /\ outbox' = [outbox EXCEPT ![c] =
            Append(@, [msg |-> [status |-> "Invalid message", message |-> <<>>,
                                action |-> None, metadata |-> NoMetadata, sdp |-> None,
                                candidate |-> None],
                       by |-> "server_loop"])]

\* C18: a message whose action is none of register, offer, answer, candidate, cancel is
\* answered to its sender with the literal text Invalid message, changes no session, sends
\* nothing to any other connection, and leaves the connection open and served
UnknownActionAnswered == [][\A c \in Conns : UnknownAction(c) => InvalidMessageReply(c)]_vars

\* a connection got Invalid message and, for a later register, the reply of the handler
ServedAfterInvalid ==
    \E c \in Conns : \E i, j \in DOMAIN outbox[c] :
        /\ i < j
        /\ outbox[c][i].msg.status = "Invalid message"
        /\ outbox[c][j].msg.status = "registered"
        /\ \E n \in DOMAIN sessions : sessions[n].sender = c

\* c has just sent an offer, an answer or a candidate for a session that has a record
RelayedRequest(c) ==
    /\ nreq' = nreq + 1
    /\ last'.conn = c
    /\ last'.req.action \in {"offer", "answer", "candidate"}
    /\ last'.req.session \in DOMAIN sessions

\* the role the message is for
TargetRole(req) ==
    CASE req.action = "offer" -> "receiver"
      [] req.action = "answer" -> "sender"
      [] req.action = "candidate" -> req.target

\* the message as the target gets it
Relayed(req) ==
    CASE req.action = "offer" -> OfferMsg(req.sdp)
      [] req.action = "answer" -> AnswerMsg(req.sdp)
      [] req.action = "candidate" -> CandidateMsg(req.candidate)

\* the stored negotiation state with the value of the message put in
Stored(messages, req) ==
    CASE req.action = "offer" -> [messages EXCEPT !.offer = req.sdp]
      [] req.action = "answer" -> [messages EXCEPT !.answer = req.sdp]
      [] req.action = "candidate" ->
            [messages EXCEPT !.candidates = Append(@, [target |-> req.target,
                                                       candidate |-> req.candidate])]

\* the value is stored; it goes to the connection of the target slot when that slot is
\* bound, and to nobody when it is not; the originator gets nothing
StoredAndForwarded(c) ==
    LET req == last'.req
        target == sessions[req.session][TargetRole(req)]
    IN  /\ req.session \in DOMAIN sessions'
        /\ sessions'[req.session].messages = Stored(sessions[req.session].messages, req)
        /\ IF target /= NoWs
           THEN outbox' = [outbox EXCEPT ![target] =
                               Append(@, [msg |-> Relayed(req), by |-> req.action])]
           ELSE outbox' = outbox
        /\ outbox'[c] = outbox[c]

\* C19: an offer, answer or candidate for an existing session is always stored, is forwarded
\* to the connection of the target role exactly when that slot is bound at handling time, and
\* is never sent to the connection it came from
StoreAndForward == [][\A c \in Conns : RelayedRequest(c) => StoredAndForwarded(c)]_vars

(***************************************************************************)
(* Properties of get_human_readable_file_size.                             *)
(***************************************************************************)
\* the call has returned
Returned == size_call.pc = "returned"

\* 1024^k
PowerOfKilo(k) == [i \in 1..(k + 1) |-> IF i = 1 THEN 1 ELSE 0]

\* the loop divides while the value is >= 1024 and the unit index below 5, and only then
DividesWhileLarge ==
    /\ size_call.pc = "loop"
    /\ size_call'.pc = "loop"
    => /\ Len(size_call.size_bytes.digits) - size_call.size_bytes.point >= 2
       /\ size_call.unit_index < 5
       /\ size_call'.unit_index = size_call.unit_index + 1
       /\ size_call'.size_bytes.point = size_call.size_bytes.point + 1

\* the loop is left when the value is below 1024 or the unit index is 5
LeavesWhenSmall ==
    /\ size_call.pc = "loop"
    /\ size_call'.pc = "returned"
    => \/ Len(size_call.size_bytes.digits) - size_call.size_bytes.point < 2
       \/ size_call.unit_index = 5

\* what is returned for the powers of 1024 and for the sizes from 1024^5 on
PowersAndCap ==
    /\ size_call.pc /= "none" => size_call.unit_index <= 5
    /\ Returned => size_call.unit \in {"B", "KB", "MB", "GB", "TB", "PB"}
    /\ \A k \in 0..5 :
          (Returned /\ size_call.argument = PowerOfKilo(k))
             => (size_call.mantissa = <<1, 0>> /\ size_call.unit = units[k + 1])
    /\ (Returned /\ Len(size_call.argument) >= 6) => size_call.unit = "PB"

\* C20: get_human_readable_file_size divides by 1024 while the value is >= 1024 and the
\* unit index below 5; for 1024^k, 0 <= k <= 5, it returns 1.000 with units[k]; for every
\* size from 1024^5 on the unit is PB; the unit index never exceeds 5
HumanReadableSize ==
    /\ [][DividesWhileLarge]_vars
    /\ [][LeavesWhenSmall]_vars
    /\ []PowersAndCap

\* a size of 1024^6 and more came back in PB, with 1024 or more before the point
BeyondPetabytes ==
    /\ Returned
    /\ Len(size_call.argument) = 7
    /\ size_call.unit = "PB"
    /\ size_call.unit_index = 5
    /\ size_call.mantissa[1] >= 1024

(***************************************************************************)
(* Properties of the shutdown and of the receiver's files.                 *)
(***************************************************************************)
\* __close_connection gets past its wait, stops the transceivers and closes the websocket:
\* the coroutine scheduled by on_open, or the call made by __handle_cancel
ShutdownCloses ==
    \/ snd.close_connection = "waiting" /\ snd'.close_connection = "done"
    \/ snd.result /= "canceled" /\ snd'.result = "canceled"

\* one of the events that set receiver_finished has happened by then
FinishEventSeen ==
    /\ snd'.did_receiver_finish
    /\ snd'.result \in {"successful", "Error: checksum mismatch", "canceled"}
    /\ snd.result /= "canceled" => (snd.did_receiver_finish \/ snd'.result = "canceled")

PartsApply == rcv.chunks_per_part >= 1 /\ rcv.chunks_count >= 1

\* a chunk has just been handled by on_message
ChunkHandled == rcv'.received_count = rcv.received_count + 1

\* the handler flushed exactly when the buffer held P chunks or the counter was T, into
\* the part numbered with the length of the parts list
FlushedWhenDue ==
    LET due == \/ Len(rcv.chunks) + 1 = rcv.chunks_per_part
               \/ rcv.received_count + 1 = rcv.chunks_count
    IN  /\ due => rcv'.parts = Append(rcv.parts, <<rcv.file_metadata.filename, ".part",
                                                   Len(rcv.parts)>>)
        /\ due => rcv'.chunks = <<>>
        /\ ~due => (rcv'.parts = rcv.parts /\ Len(rcv'.chunks) = Len(rcv.chunks) + 1)

\* the MB of the payload that make up chunks from..to
ChunksOf(from, to) ==
    SubSeq(snd.emitted, (from - 1) * (rcv.CHUNK_SIZE_BYTES \div Mega) + 1,
           Min(to * (rcv.CHUNK_SIZE_BYTES \div Mega), Len(snd.emitted)))

\* parts are numbered 0, 1, .. in order; while they wait for the merge, part i holds the
\* P chunks that follow those of part i - 1
PartsInOrder ==
    /\ \A i \in DOMAIN rcv.parts :
          rcv.parts[i] = <<rcv.file_metadata.filename, ".part", i - 1>>
    /\ ~Finalized =>
          \A i \in DOMAIN rcv.parts :
             /\ rcv.parts[i] \in DOMAIN rcv.files
             /\ rcv.files[rcv.parts[i]] =
                   ChunksOf((i - 1) * rcv.chunks_per_part + 1, i * rcv.chunks_per_part)

\* at finalization: ceil(T/P) parts and an empty buffer
PartsAtFinalization ==
    Finalized =>
        /\ Len(rcv.parts) = (rcv.chunks_count + rcv.chunks_per_part - 1) \div rcv.chunks_per_part
        /\ rcv.chunks = <<>>

\* C22: with CHUNKS_PER_PART = P >= 1 and T >= 1 chunks in all, the receiver flushes exactly
\* when the buffer holds P chunks or the counter equals T and names the part with the length
\* of the parts list; at finalization there are ceil(T/P) parts numbered from 0 without gaps,
\* every part but the last holds P consecutive chunks, and the buffer is empty
PartsLayout ==
    /\ [][(PartsApply /\ ChunkHandled) => FlushedWhenDue]_vars
    /\ [](PartsApply => (PartsInOrder /\ PartsAtFinalization))

\* three chunks went into two parts of two chunks and of one
TwoPartsOfThreeChunks ==
    /\ Finalized
    /\ rcv.chunks_per_part = 2
    /\ rcv.chunks_count = 3
    /\ Len(rcv.parts) = 2
    /\ rcv.chunks = <<>>

\* the part files in the receiver's working directory
PartFiles == {f \in DOMAIN rcv.files : Len(f) = 3 /\ f[2] = ".part"}

\* __call__ of the receiver has returned or raised
ReceiverTerminated == rcv.pc \in {"done", "failed"}

\* C23: no part file remains after a completed merge, and none remains once the receiver
\* has terminated, also when the transfer ended before the last chunk
PartFilesRemoved ==
    /\ Finalized => PartFiles = {}
    /\ ReceiverTerminated => PartFiles = {}

\* C24: once the receiver has sent "Error: checksum mismatch" the merged destination file
\* exists, whether the payload is to be unpacked or not
DestinationKeptOnMismatch ==
    HasSent("Error: checksum mismatch") => <<rcv.file_metadata.filename>> \in DOMAIN rcv.files

(***************************************************************************)
(* Properties of the handlers that interleave.                             *)
(***************************************************************************)
\* the registration of c as receiver has sent "registered" and not yet the metadata
MetadataPending(c) == hpc[c] = "send metadata"

\* C25: however the registration of a receiver interleaves with the offers and candidates
\* handled for the sender of its session, the connection gets "registered" first and the
\* metadata second: no offer or candidate is delivered to it before the metadata
MetadataBeforeOffer ==
    \A c \in Conns :
        MetadataPending(c) =>
            \A i \in DOMAIN outbox[c] : outbox[c][i].msg.action \notin {"offer", "candidate"}

\* C26: an offer the sender submits is delivered to a receiver connection at most once,
\* never both by the live forwarding of the offer handler and by the replay of the stored
\* offer at the end of the registration
OfferDeliveredOnce ==
    \A c \in Conns : \A i, j \in DOMAIN outbox[c] :
        (/\ outbox[c][i].msg.action = "offer"
         /\ outbox[c][j].msg.action = "offer"
         /\ outbox[c][i].msg.sdp = outbox[c][j].msg.sdp) => i = j

(***************************************************************************)
(* Properties of the end of a transfer.                                    *)
(***************************************************************************)
\* the places of the receiver's texts that hold a terminal text
TerminalAt == {i \in DOMAIN rcv.texts : rcv.texts[i] \in Terminal}

\* the "ack" texts among the first n texts of the receiver
AcksBefore(n) == Cardinality({i \in 1..(n - 1) : rcv.texts[i] = "ack"})

\* no terminal text before the counter has reached the total, the "ack" of the final chunk
\* right before the terminal text, and one terminal text at most
OneTerminalAfterLastAck ==
    /\ Cardinality(TerminalAt) <= 1
    /\ \A i \in TerminalAt :
          /\ rcv.received_count >= rcv.chunks_count
          /\ i > 1
          /\ rcv.texts[i - 1] = "ack"
          /\ AcksBefore(i) = rcv.chunks_count
    /\ (rcv.received_count >= 1 /\ rcv.received_count >= rcv.chunks_count) =>
          Cardinality(TerminalAt) = 1

\* the step in which on_message of the sender handles "Finished"
ObservesFinished ==
    /\ SenderRunning
    /\ dc.state = "open"
    /\ dc.toSender /= <<>>
    /\ Head(dc.toSender) = "Finished"
    /\ snd' = sender_on_message(snd, "Finished")
    /\ dc'.toSender = Tail(dc.toSender)

\* C27: the receiver sends no terminal text before its counter reaches the total chunk
\* count, sends the "ack" of the final chunk before the terminal text and sends one terminal
\* text per transfer; so the sender never handles "Finished" while a chunk it has sent
\* is still unacknowledged
TerminalTextLast ==
    /\ []OneTerminalAfterLastAck
    /\ [][ObservesFinished => snd.count = snd.acked]_vars

\* the sender has handled "Finished" after a payload of two chunks or more
FinishedAfterAllAcks ==
    /\ snd.result = "successful"
    /\ snd.count >= 2
    /\ snd.acked = snd.count
    /\ Cardinality(TerminalAt) = 1

(***************************************************************************)
(* A session and one client more than it has roles: the connection that    *)
(* registers after a peer of the session has gone.                         *)
(***************************************************************************)
\* the connections: one more than the two roles of a session
Clients == 1..(NumConns + 1)

\* what the clients send: registers and negotiation messages for one session name
SessionRequests(i) ==
    {req \in Requests(i) :
        /\ req.session \in Generated
        /\ req.action \in {"register", "offer", "answer", "candidate"}
        /\ req.role \in {None, "sender", "receiver"}}

LateInit ==
    /\ NoPeers
    /\ size_call = NoCall
    /\ sessions = NoSessions
    /\ order = <<>>
    /\ wsState = [c \in Clients |-> "open"]
    /\ inbox = [c \in Clients |-> <<>>]
    /\ outbox = [c \in Clients |-> <<>>]
    /\ hpc = [c \in Clients |-> "idle"]
    /\ hreq = [c \in Clients |-> None]
    /\ last = Step(NoWs, RequestData(None, None, None, NoMetadata, None, None, None), "start")
    /\ nreq = 0

LateNext ==
    \/ \E c \in Clients : SendMetadata(c)
    \/ \E c \in Clients : SendStoredOffer(c)
    \/ \E c \in Clients : ServerCleanup(c)
    \/ \E c \in Clients : \E req \in SessionRequests(nreq + 1) : ClientRequest(c, req)
    \/ \E c \in Clients : ClientClose(c)

LateSpec == LateInit /\ [][LateNext]_vars

\* connection c holds the receiver slot of session n
HoldsReceiver(c, n) == n \in DOMAIN sessions /\ sessions[n].receiver = c

\* connection c has not terminated, neither before the step nor in it
StaysOpen(c) == wsState[c] = "open" /\ wsState'[c] = "open"

\* after the step c still holds the receiver slot of n, and the offer, the answer and
\* the candidates stored for n are still there
KeptAfter(c, n) ==
    /\ n \in DOMAIN sessions'
    /\ sessions'[n].receiver = c
    /\ sessions[n].messages.offer /= None => sessions'[n].messages.offer /= None
    /\ sessions[n].messages.answer /= None => sessions'[n].messages.answer /= None
    /\ Len(sessions'[n].messages.candidates) >= Len(sessions[n].messages.candidates)
    /\ SubSeq(sessions'[n].messages.candidates, 1, Len(sessions[n].messages.candidates))
           = sessions[n].messages.candidates

\* C28: a connection bound to the receiver slot of a session stays bound to it, and the
\* stored offer, answer and candidates are kept, until that connection terminates: no
\* message of another connection, a sender register for the same name after the first
\* sender has gone included, unbinds or replaces the receiver or discards what is stored
ReceiverStaysBound ==
    [][\A c \in Clients : \A n \in DOMAIN sessions :
          (HoldsReceiver(c, n) /\ StaysOpen(c) /\ last'.conn /= c) => KeptAfter(c, n)]_vars

(***************************************************************************)
(* Properties of a relayed message for a session that has no record.       *)
(***************************************************************************)
\* c has just sent an offer, an answer, a candidate or a cancel that names a session
\* with no record
RelayForMissingSession(c) ==
    /\ nreq' = nreq + 1
    /\ last'.conn = c
    /\ last'.req.action \in {"offer", "answer", "candidate", "cancel"}
    /\ last'.req.session \notin DOMAIN sessions

\* the sessions with a slot that holds c
HeldBy(c) == {n \in DOMAIN sessions : sessions[n].sender = c \/ sessions[n].receiver = c}

\* one slot of session n that held c is empty after the step, and the record is gone
\* when its other slot was empty too; nothing else of the record has changed
SlotCleared(c, n) ==
    \/ /\ sessions[n].sender = c
       /\ sessions[n].receiver = NoWs
       /\ n \notin DOMAIN sessions'
    \/ /\ sessions[n].sender = c
       /\ sessions[n].receiver /= NoWs
       /\ n \in DOMAIN sessions'
       /\ sessions'[n] = [sessions[n] EXCEPT !.sender = NoWs]
    \/ /\ sessions[n].sender = NoWs
       /\ sessions[n].receiver = c
       /\ n \notin DOMAIN sessions'
    \/ /\ sessions[n].sender \notin {c, NoWs}
       /\ sessions[n].receiver = c
       /\ n \in DOMAIN sessions'
       /\ sessions'[n] = [sessions[n] EXCEPT !.receiver = NoWs]

\* every session but n has its record as before, and no session has appeared
OthersUntouched(n) ==
    /\ DOMAIN sessions' \subseteq DOMAIN sessions
    /\ \A m \in (DOMAIN sessions) \ {n} : m \in DOMAIN sessions' /\ sessions'[m] = sessions[m]

\* nothing is sent, the service loop of c is over, and cleanup has done for c what it does
\* after a disconnect
FailsAndCleansUp(c) ==
    /\ outbox' = outbox
    /\ wsState'[c] = "closed"
    /\ hpc'[c] = "idle"
    /\ sessions' = cleanup(sessions, order, c).sessions
    /\ IF HeldBy(c) = {}
       THEN sessions' = sessions
       ELSE \E n \in HeldBy(c) : SlotCleared(c, n) /\ OthersUntouched(n)

\* C29: an offer, answer, candidate or cancel that names a session with no record creates
\* no record and forwards nothing; the failure of the handler ends the service loop of the
\* connection that sent it, and cleanup clears the slot the connection holds, if any, as
\* after a disconnect and leaves the record of every other session as it was
MissingSessionFails ==
    [][\A c \in Conns : RelayForMissingSession(c) => FailsAndCleansUp(c)]_vars

\* the sender of a session that has a receiver has sent an offer for a name without a
\* record: its loop has ended, its slot is empty, the receiver's is as before
FailedOnMissingSession ==
    /\ last.result = "raised"
    /\ last.req.action = "offer"
    /\ last.req.session = "dog-elk-fox"
    /\ wsState[last.conn] = "closed"
    /\ DOMAIN sessions = {"ape-bat-cat"}
    /\ sessions["ape-bat-cat"].sender = NoWs
    /\ sessions["ape-bat-cat"].receiver \notin {NoWs, last.conn}
    /\ \A c \in Conns : \A i \in DOMAIN outbox[c] : outbox[c][i].msg.action /= "offer"

=============================================================================
